---- MODULE Spec2Model ----
(***************************************************************************)
(* GaLib: the generational engine genetic::GeneticAlgorithm<ConfigType>.   *)
(*                                                                         *)
(* One engine object is a record (its data members, plus instrumentation   *)
(* that counts what the fitness function and the callback were given).     *)
(* Every private operation of the engine is an operator from an engine and *)
(* the values it draws from m_rng to the engine afterwards; the actions    *)
(* choose the drawn values, so the random generator is every sequence of   *)
(* draws it could deliver.                                                 *)
(*                                                                         *)
(* Reals are fixed-point: a real r is held as the integer r * Scale(bits), *)
(* Scale(bits) = 2^bits - 1, so that bin_to_real is exact.                 *)
(***************************************************************************)
EXTENDS Integers, Naturals, Sequences, FiniteSets, TLC

\* ------------------------------------------------------------------------
\* Bounds of the model
\* ------------------------------------------------------------------------

\* Largest max_generations of a Config.
MaxGenerations == 2

\* How many times run() may be entered on one engine.
MaxRuns == 2

\* ------------------------------------------------------------------------
\* Numeric types
\* ------------------------------------------------------------------------

\* Width of ConfigType::integer_type (a 2 bit unsigned stands for uint32_t).
IntegerWidth == 2

\* std::numeric_limits<Real>::lowest(), the initial m_best_fitness.
Lowest == -1000

\* -infinity, a value of Real below lowest().
NegInf == Lowest - 1

Pow2(n) == 2 ^ n

IntegerValues == 0 .. (Pow2(IntegerWidth) - 1)

Bit(x, i) == (x \div Pow2(i)) % 2

\* a & b, a | b, a ^ b and ~a on integer_type
RECURSIVE BitFold(_, _, _, _)
BitFold(op, a, b, i) ==
    IF i = IntegerWidth THEN 0
    ELSE LET x == Bit(a, i)
             y == Bit(b, i)
             r == CASE op = "and" -> (IF x = 1 /\ y = 1 THEN 1 ELSE 0)
                    [] op = "or"  -> (IF x = 1 \/ y = 1 THEN 1 ELSE 0)
                    [] op = "xor" -> (IF x # y THEN 1 ELSE 0)
         IN  r * Pow2(i) + BitFold(op, a, b, i + 1)

BitAnd(a, b) == BitFold("and", a, b, 0)
BitOr(a, b) == BitFold("or", a, b, 0)
BitXor(a, b) == BitFold("xor", a, b, 0)
BitNot(a) == (Pow2(IntegerWidth) - 1) - a

Max(S) == CHOOSE x \in S : \A y \in S : y <= x

\* ------------------------------------------------------------------------
\* genetic_utils.hpp, genetic_config.hpp
\* ------------------------------------------------------------------------

\* get_integer_max(): 2^integer_bits - 1
Scale(bits) == Pow2(bits) - 1

\* utils::bin_to_real: min + bin / (2^bits - 1) * (max - min), times Scale(bits)
bin_to_real(bin, min_real, max_real, bits) ==
    min_real * Scale(bits) + bin * (max_real - min_real)

\* real_type with its rounding, at the model's scale: binary floating point
\* with Precision significant bits. A value is written as the integer
\* count of the smallest unit, 2^-FractionBits.
Precision == 3

FractionBits == 4

One == Pow2(FractionBits)

Abs(x) == IF x < 0 THEN 0 - x ELSE x

\* The spacing of the representable values around a / den (a >= 0): the
\* least power of two u with a / den < 2^Precision * u.
RECURSIVE Ulp(_, _, _)
Ulp(a, den, u) ==
    IF a < Pow2(Precision) * u * den THEN u ELSE Ulp(a, den, 2 * u)

\* num / den (den > 0) rounded to the nearest representable value, ties to
\* the even one: what one operation of real_type delivers.
Round(num, den) ==
    LET a == Abs(num)
        u == Ulp(a, den, 1)
        lo == (a \div (den * u)) * u
        twice == 2 * (a - lo * den)
        up == \/ twice > u * den
              \/ twice = u * den /\ (lo \div u) % 2 = 1
        r == IF up THEN lo + u ELSE lo
    IN  IF num < 0 THEN 0 - r ELSE r

\* The representable values up to limit in magnitude.
FloatValues(limit) == {n \in (0 - limit) .. limit : Round(n, 1) = n}

\* utils::bin_to_real in real_type's arithmetic:
\* min + (Real(bin) / Real(2^bits - 1)) * (max - min), each operation
\* rounded. min_real and max_real are representable values.
bin_to_real_native(bin, min_real, max_real, bits) ==
    LET ratio == Round(Round(bin * One, 1) * One, Round(Scale(bits) * One, 1))
        range == Round(max_real - min_real, 1)
        prod == Round(ratio * range, One)
    IN  Round(min_real + prod, 1)

\* Config::get_half_population_size()
get_half_population_size(cfg) == cfg.population_size \div 2

\* Config::validate(): TRUE when it returns, FALSE when it throws
\* std::invalid_argument
validate(cfg) ==
    /\ cfg.min_real < cfg.max_real
    /\ cfg.population_size > 0
    /\ cfg.population_size % 2 = 0
    /\ cfg.max_generations > 0
    /\ cfg.number_of_vectors >= 1
    /\ cfg.dimension >= 1
    /\ cfg.integer_bits >= 1
    /\ cfg.integer_bits <= IntegerWidth
    /\ cfg.tournament_size >= 1
    /\ cfg.tournament_size <= cfg.population_size

\* The default-constructed Config of the tests and examples, at the model's scale.
DefaultConfig ==
    [ population_size |-> 4, max_generations |-> 1, number_of_vectors |-> 1,
      dimension |-> 1, min_real |-> -1, max_real |-> 1, integer_bits |-> 1,
      crossover_method |-> "SINGLE_POINT_BIT_LEVEL", tournament_size |-> 1,
      enable_elitism |-> TRUE, enable_auto_adaptation |-> FALSE,
      initial_mutation_probability |-> "mid",
      uniform_crossover_probability |-> "mid" ]

\* ------------------------------------------------------------------------
\* genetic_individu.hpp: Individu<ConfigType>
\* ------------------------------------------------------------------------

\* The values of one gene of integer_bits bits.
GeneValues(cfg) == 0 .. Scale(cfg.integer_bits)

\* The chromosomes of an individual: number_of_vectors vectors of dimension genes.
Genotypes(cfg, values) ==
    [1 .. cfg.number_of_vectors -> [1 .. cfg.dimension -> values]]

\* The mutation-probability genes: number_of_vectors + 1 of them with
\* auto-adaptation, unused (zero) without.
ProbaGenes(cfg, values) ==
    IF cfg.enable_auto_adaptation
    THEN [1 .. cfg.number_of_vectors + 1 -> values]
    ELSE {[i \in 1 .. cfg.number_of_vectors + 1 |-> 0]}

\* An individual with the given genetic material and no cached fitness.
\* The fitness field of an unevaluated individual is never read: it is kept 0.
NewIndividual(genes, probas) ==
    [genes |-> genes, probas |-> probas, evaluated |-> FALSE, fitness |-> 0]

\* Individu::invalidate_fitness
invalidate_fitness(ind) == [ind EXCEPT !.evaluated = FALSE, !.fitness = 0]

\* Individu::set_fitness
set_fitness(ind, eval) == [ind EXCEPT !.evaluated = TRUE, !.fitness = eval]

\* Individu::set_gene: writes the gene and invalidates the cached fitness
set_gene(ind, chromo, i, value) ==
    invalidate_fitness([ind EXCEPT !.genes[chromo][i] = value])

\* Individu::set_mutation_proba: writes the gene and invalidates the cache
set_mutation_proba(ind, i, value) ==
    invalidate_fitness([ind EXCEPT !.probas[i] = value])

\* Individu::to_real_vectors
to_real_vectors(cfg, ind) ==
    [c \in DOMAIN ind.genes |->
        [i \in DOMAIN ind.genes[c] |->
            bin_to_real(ind.genes[c][i], cfg.min_real, cfg.max_real,
                        cfg.integer_bits)]]

\* The masks of bits Individu::mutate may flip in one gene under a mutation
\* probability of 0, of 1, or strictly between.
FlipMasks(cfg, proba) ==
    CASE proba = "zero" -> {0}
      [] proba = "one" -> {Scale(cfg.integer_bits)}
      [] OTHER -> GeneValues(cfg)

\* Individu::mutate with the given flips: flips[c][i] is the mask of flipped
\* bits of gene i of chromosome c, pflips[i] that of probability gene i.
mutate(ind, flips, pflips) ==
    invalidate_fitness(
        [ind EXCEPT
            !.genes = [c \in DOMAIN ind.genes |->
                          [i \in DOMAIN ind.genes[c] |->
                              BitXor(ind.genes[c][i], flips[c][i])]],
            !.probas = [i \in DOMAIN ind.probas |->
                          BitXor(ind.probas[i], pflips[i])]])

\* ------------------------------------------------------------------------
\* The fitness function supplied by the caller (pure; higher is better)
\* ------------------------------------------------------------------------

RECURSIVE SumSeq(_)
SumSeq(s) == IF s = <<>> THEN 0 ELSE Head(s) + SumSeq(Tail(s))

\* The fitness functions of the model, applied to the decoded vectors:
\* the sum of the coordinates, minus the sum of their squares (the sphere of
\* the examples), and two constant ones, lowest() and -infinity.
Fitness(f, vecs) ==
    CASE f \in {"sum", "partial"} -> SumSeq([c \in DOMAIN vecs |-> SumSeq(vecs[c])])
      [] f = "sphere" ->
            0 - SumSeq([c \in DOMAIN vecs |->
                          SumSeq([i \in DOMAIN vecs[c] |-> vecs[c][i] * vecs[c][i]])])
      [] f = "lowest" -> Lowest
      [] OTHER -> NegInf

\* The fitness function "partial" is the sum of the coordinates where that
\* sum is not positive, and throws elsewhere.
Throws(f, vecs) ==
    f = "partial" /\ SumSeq([c \in DOMAIN vecs |-> SumSeq(vecs[c])]) > 0

FitnessFunctions == {"sum", "sphere", "lowest", "neg_inf", "partial"}

\* ------------------------------------------------------------------------
\* genetic.hpp: GeneticAlgorithm<ConfigType>
\* ------------------------------------------------------------------------

\* m_rng(seed == 0 ? std::random_device{}() : seed): what the generator is
\* seeded with. Two generators seeded alike deliver the same values.
seed_rng(seed, entropy) == IF seed = 0 THEN entropy ELSE seed

\* The engine after its member initialisers, before the constructor's body.
\* best is the value-initialised m_best_individual.
NewEngine(cfg, f, seed, entropy, best) ==
    [ m_config |-> cfg, m_fitness_func |-> f, seed |-> seed,
      m_rng |-> seed_rng(seed, entropy),
      m_population |-> <<>>, m_selected |-> <<>>,
      m_current_generation |-> 0,
      m_best_fitness |-> Lowest,
      m_best_individual |-> best,
      \* position of the caller: in the constructor, in run(), in a step
      pc |-> "new",
      \* run()'s loop variable, whether it was given a callback, and how many
      \* times run() was entered
      gen |-> 0, has_callback |-> FALSE, runs |-> 0,
      \* how the last call of the constructor, run() or reset() ended: "none"
      \* when it returned, else what threw
      error |-> "none",
      \* the calls the caller has still to make ("run", "reset"), and the
      \* reset() calls made
      plan |-> <<>>, resets |-> 0,
      \* instrumentation: step() calls completed by the current run(), the
      \* callback's invocations, the fitness function's invocations and the
      \* values it returned, the genotypes individuals ever held, the slots
      \* holding an unevaluated copy of an evaluated individual with the
      \* same genes, whether the function was invoked on such a copy, and
      \* whether an index left its container
      steps |-> 0, log |-> <<>>, calls |-> 0, returned |-> {},
      \* the invocations of the fitness function that threw
      failed_calls |-> 0,
      produced |-> {}, unchanged |-> {}, reinvoked |-> FALSE,
      out_of_range |-> FALSE,
      \* whether the fitness function was handed vectors of another shape
      \* or range than the Config's, and how many times the last
      \* create_offspring() wrote each population slot
      bad_args |-> FALSE, writes |-> <<>>,
      \* the indices m_index_dist delivered to the selection() that has just
      \* returned
      drawn |-> <<>> ]

\* evaluate() without its cache: the fitness function is invoked whatever
\* the evaluated flag says.
evaluate_uncached(e, ind) ==
    LET real_vecs == to_real_vectors(e.m_config, ind)
        eval == Fitness(e.m_fitness_func, real_vecs)
    IN  IF Throws(e.m_fitness_func, real_vecs)
        THEN [ind |-> ind, eval |-> 0, called |-> TRUE, thrown |-> TRUE,
              args |-> real_vecs]
        ELSE [ind |-> set_fitness(ind, eval), eval |-> eval, called |-> TRUE,
              thrown |-> FALSE, args |-> real_vecs]

\* evaluate(ind): the individual afterwards, the value returned, whether
\* the fitness function was invoked, with what, and whether it threw (the
\* exception leaves evaluate() before set_fitness).
evaluate(e, ind) ==
    IF ind.evaluated
    THEN [ind |-> ind, eval |-> ind.fitness, called |-> FALSE,
          thrown |-> FALSE, args |-> <<>>]
    ELSE LET real_vecs == to_real_vectors(e.m_config, ind)
             eval == Fitness(e.m_fitness_func, real_vecs)
         IN  IF Throws(e.m_fitness_func, real_vecs)
             THEN [ind |-> ind, eval |-> 0, called |-> TRUE, thrown |-> TRUE,
                   args |-> real_vecs]
             ELSE [ind |-> set_fitness(ind, eval), eval |-> eval,
                   called |-> TRUE, thrown |-> FALSE, args |-> real_vecs]

\* Whether real_vecs is what the Config describes: number_of_vectors
\* vectors of dimension reals, each in [min_real, max_real] (the reals
\* times Scale(integer_bits), as bin_to_real delivers them).
WellFormed(cfg, real_vecs) ==
    /\ Len(real_vecs) = cfg.number_of_vectors
    /\ \A c \in DOMAIN real_vecs :
          /\ Len(real_vecs[c]) = cfg.dimension
          /\ \A i \in DOMAIN real_vecs[c] :
                /\ cfg.min_real * Scale(cfg.integer_bits) <= real_vecs[c][i]
                /\ real_vecs[c][i] <= cfg.max_real * Scale(cfg.integer_bits)

\* What one evaluate() of population slot i adds to the instrumentation.
Observed(e, i, r) ==
    IF r.called
    THEN [e EXCEPT !.calls = @ + 1,
                   !.bad_args = @ \/ ~WellFormed(e.m_config, r.args),
                   !.returned = IF r.thrown THEN @ ELSE @ \cup {r.eval},
                   !.error = IF r.thrown THEN "fitness" ELSE @,
                   !.failed_calls = IF r.thrown THEN @ + 1 ELSE @,
                   !.reinvoked = @ \/ (i \in e.unchanged),
                   !.unchanged = @ \ {i}]
    ELSE e

\* update_best(), from population slot i on
RECURSIVE update_best_from(_, _)
update_best_from(e, i) ==
    IF i > Len(e.m_population) THEN e
    ELSE LET r == evaluate(e, e.m_population[i])
             e1 == [Observed(e, i, r) EXCEPT !.m_population[i] = r.ind]
             e2 == IF r.eval > e1.m_best_fitness
                   THEN [e1 EXCEPT !.m_best_fitness = r.eval,
                                   !.m_best_individual = r.ind]
                   ELSE e1
         IN  IF r.thrown THEN e1 ELSE update_best_from(e2, i + 1)

\* update_best() without its comparison: every member is evaluated and the
\* last one is recorded as the best.
update_best_last(e) ==
    LET e1 == update_best_from(e, 1)
        last == e1.m_population[Len(e1.m_population)]
    IN  [e1 EXCEPT !.m_best_fitness = last.fitness, !.m_best_individual = last]

update_best(e) == update_best_from(e, 1)

\* The genotypes of a sequence of individuals.
GenesOf(inds) == {inds[i].genes : i \in DOMAIN inds}

\* initialize_population() that leaves the evaluation of the new members
\* to the first step: no update_best() at its end.
initialize_population_unevaluated(e, drawn) ==
    [e EXCEPT !.m_population =
                  [i \in 1 .. e.m_config.population_size |->
                      NewIndividual(drawn[i].genes, drawn[i].probas)],
              !.produced = @ \cup {drawn[i].genes : i \in DOMAIN drawn},
              !.unchanged = {}]

\* initialize_population(): population_size random individuals, then
\* update_best(). drawn[i] is the genetic material drawn for individual i.
initialize_population(e, drawn) ==
    update_best(
        [e EXCEPT !.m_population =
                      [i \in 1 .. e.m_config.population_size |->
                          NewIndividual(drawn[i].genes, drawn[i].probas)],
                  !.produced = @ \cup {drawn[i].genes : i \in DOMAIN drawn},
                  !.unchanged = {}])

\* What Individu(config, rng) can draw for population_size individuals.
PopulationDraws(cfg) ==
    [1 .. cfg.population_size ->
        [genes : Genotypes(cfg, GeneValues(cfg)),
         probas : ProbaGenes(cfg, GeneValues(cfg))]]

\* The constructor's body after the member initialisers: validate(),
\* initialize_population(), m_selected.resize(half).
\* The resized buffer holds default-constructed individuals.
\* When the fitness function throws in initialize_population() the
\* constructor is left by the exception and there is no engine.
Constructed(e, drawn) ==
    LET e1 == initialize_population(e, drawn)
    IN  IF e1.error # "none" THEN [e1 EXCEPT !.pc = "failed"]
        ELSE [e1 EXCEPT !.m_selected =
                            [i \in 1 .. get_half_population_size(e.m_config) |->
                                e.m_best_individual],
                        !.pc = "ready"]

\* One tournament of selection() in which a later candidate replaces the
\* current winner when it is at least as fit.
RECURSIVE tournament_last_wins(_, _, _, _, _)
tournament_last_wins(e, drawn, t, best_idx, best_eval) ==
    IF t > Len(drawn) THEN [e |-> e, best_idx |-> best_idx]
    ELSE LET idx == drawn[t]
             r == evaluate(e, e.m_population[idx])
             e1 == [Observed(e, idx, r) EXCEPT !.m_population[idx] = r.ind]
         IN  IF r.thrown THEN [e |-> e1, best_idx |-> best_idx]
             ELSE IF t = 1 \/ r.eval >= best_eval
             THEN tournament_last_wins(e1, drawn, t + 1, idx, r.eval)
             ELSE tournament_last_wins(e1, drawn, t + 1, best_idx, best_eval)

\* One tournament of selection(): drawn are the tournament_size indices
\* pushed into tournament_indices. Candidate t is evaluated in place; it
\* replaces the current winner only when strictly fitter.
RECURSIVE tournament(_, _, _, _, _)
tournament(e, drawn, t, best_idx, best_eval) ==
    IF t > Len(drawn) THEN [e |-> e, best_idx |-> best_idx]
    ELSE LET idx == drawn[t]
             r == evaluate(e, e.m_population[idx])
             e1 == [Observed(e, idx, r) EXCEPT !.m_population[idx] = r.ind]
         IN  IF r.thrown THEN [e |-> e1, best_idx |-> best_idx]
             ELSE IF t = 1 \/ r.eval > best_eval
             THEN tournament(e1, drawn, t + 1, idx, r.eval)
             ELSE tournament(e1, drawn, t + 1, best_idx, best_eval)

\* selection(), from buffer entry i on: m_selected[i] = m_population[best_idx]
RECURSIVE selection_from(_, _, _)
selection_from(e, drawn, i) ==
    IF i > get_half_population_size(e.m_config) THEN e
    ELSE LET w == tournament(e, drawn[i], 1, 0, 0)
             e1 == [w.e EXCEPT !.m_selected[i] = w.e.m_population[w.best_idx]]
         IN  IF w.e.error # "none" THEN w.e
             ELSE selection_from(e1, drawn, i + 1)

\* selection() that leaves no cached fitness behind: every member's cache is
\* invalidated once the parents are copied.
selection_invalidating(e, drawn) ==
    LET e1 == selection_from(e, drawn, 1)
    IN  [e1 EXCEPT !.m_population =
                       [j \in DOMAIN @ |-> invalidate_fitness(@[j])]]

selection(e, drawn) == selection_from(e, drawn, 1)

\* What m_index_dist can deliver to one selection().
SelectionDraws(cfg) ==
    [1 .. get_half_population_size(cfg) ->
        [1 .. cfg.tournament_size -> 1 .. cfg.population_size]]

\* (Integer(1) << k_prime) - Integer(1)
LowMask(k_prime) == (Pow2(k_prime) % Pow2(IntegerWidth)) - 1

\* The single point method without its splice: the cut gene goes whole to
\* the other child, as the genes after it.
single_point_genes_unspliced(cfg, g1, g2, cut_point) ==
    LET k == cut_point \div cfg.integer_bits
    IN  [child1 |-> [i \in DOMAIN g1 |-> IF i - 1 < k THEN g1[i] ELSE g2[i]],
         child2 |-> [i \in DOMAIN g2 |-> IF i - 1 < k THEN g2[i] ELSE g1[i]]]

\* bit_level_crossover_single_point_bit_level on the genes of one chromosome:
\* g1, g2 are the parents' genes, cut_point the value of m_cut_dist(m_rng).
\* Gene i of the code is gene i + 1 here.
single_point_genes(cfg, g1, g2, cut_point) ==
    LET k == cut_point \div cfg.integer_bits
        k_prime == cut_point % cfg.integer_bits
        mask1 == LowMask(k_prime)
        mask2 == BitNot(mask1)
    IN  [child1 |-> [i \in DOMAIN g1 |->
                        IF i - 1 < k THEN g1[i]
                        ELSE IF i - 1 = k
                             THEN BitOr(BitAnd(g1[i], mask1), BitAnd(g2[i], mask2))
                             ELSE g2[i]],
         child2 |-> [i \in DOMAIN g2 |->
                        IF i - 1 < k THEN g2[i]
                        ELSE IF i - 1 = k
                             THEN BitOr(BitAnd(g2[i], mask1), BitAnd(g1[i], mask2))
                             ELSE g1[i]]]

\* The uniform method deciding once per gene: the draw of bit 0 sends the
\* whole gene straight or swapped.
uniform_genes_per_gene(cfg, g1, g2, straight) ==
    [child1 |-> [i \in DOMAIN g1 |->
                    IF Bit(straight[i], 0) = 1 THEN g1[i] ELSE g2[i]],
     child2 |-> [i \in DOMAIN g2 |->
                    IF Bit(straight[i], 0) = 1 THEN g2[i] ELSE g1[i]]]

\* bit_level_crossover_uniform_bit_level on the genes of one chromosome:
\* straight[i] is the mask of the bits of gene i (below integer_bits) whose
\* draw was <= uniform_crossover_probability; the other bits are swapped.
uniform_genes(cfg, g1, g2, straight) ==
    LET all == Scale(cfg.integer_bits)
    IN  [child1 |-> [i \in DOMAIN g1 |->
                        BitOr(BitAnd(g1[i], straight[i]),
                              BitAnd(g2[i], all - straight[i]))],
         child2 |-> [i \in DOMAIN g2 |->
                        BitOr(BitAnd(g2[i], straight[i]),
                              BitAnd(g1[i], all - straight[i]))]]

\* The switch on crossover_method whose uniform method starts the
\* children's genes from a value with every bit above integer_bits set.
bit_level_crossover_filled(cfg, g1, g2, d) ==
    IF cfg.crossover_method = "SINGLE_POINT_BIT_LEVEL"
    THEN single_point_genes(cfg, g1, g2, d)
    ELSE LET u == uniform_genes(cfg, g1, g2, d)
             high == BitNot(Scale(cfg.integer_bits))
         IN  [child1 |-> [i \in DOMAIN g1 |-> BitOr(u.child1[i], high)],
              child2 |-> [i \in DOMAIN g2 |-> BitOr(u.child2[i], high)]]

\* bit_level_crossover / bit_level_crossover_probas: the switch on
\* crossover_method. d is what the method draws: a cut point or the masks.
bit_level_crossover(cfg, g1, g2, d) ==
    IF cfg.crossover_method = "SINGLE_POINT_BIT_LEVEL"
    THEN single_point_genes(cfg, g1, g2, d)
    ELSE uniform_genes(cfg, g1, g2, d)

\* crossover() whose children keep the cache of the parent they are copied
\* from when their genetic material is that parent's.
crossover_keeping_cache(cfg, p1, p2, d) ==
    LET x == [c \in DOMAIN p1.genes |->
                 bit_level_crossover(cfg, p1.genes[c], p2.genes[c], d.genes[c])]
        px == bit_level_crossover(cfg, p1.probas, p2.probas, d.probas)
        child1 == [p1 EXCEPT !.genes = [c \in DOMAIN p1.genes |-> x[c].child1],
                             !.probas = IF cfg.enable_auto_adaptation
                                        THEN px.child1 ELSE @]
        child2 == [p2 EXCEPT !.genes = [c \in DOMAIN p2.genes |-> x[c].child2],
                             !.probas = IF cfg.enable_auto_adaptation
                                        THEN px.child2 ELSE @]
    IN  <<IF child1 = p1 THEN child1 ELSE invalidate_fitness(child1),
          IF child2 = p2 THEN child2 ELSE invalidate_fitness(child2)>>

\* crossover() recombining the mutation-probability genes whatever
\* enable_auto_adaptation says.
crossover_always_adapting(cfg, p1, p2, d) ==
    LET x == [c \in DOMAIN p1.genes |->
                 bit_level_crossover(cfg, p1.genes[c], p2.genes[c], d.genes[c])]
        px == bit_level_crossover(cfg, p1.probas, p2.probas, d.probas)
        child1 == [p1 EXCEPT !.genes = [c \in DOMAIN p1.genes |-> x[c].child1],
                             !.probas = px.child1]
        child2 == [p2 EXCEPT !.genes = [c \in DOMAIN p2.genes |-> x[c].child2],
                             !.probas = px.child2]
    IN  <<invalidate_fitness(child1), invalidate_fitness(child2)>>

\* crossover(p1, p2): the children are copies of the parents whose
\* chromosomes (and, with auto-adaptation, probability genes) are recombined
\* and whose cached fitness is invalidated.
crossover(cfg, p1, p2, d) ==
    LET x == [c \in DOMAIN p1.genes |->
                 bit_level_crossover(cfg, p1.genes[c], p2.genes[c], d.genes[c])]
        px == bit_level_crossover(cfg, p1.probas, p2.probas, d.probas)
        child1 == [p1 EXCEPT !.genes = [c \in DOMAIN p1.genes |-> x[c].child1],
                             !.probas = IF cfg.enable_auto_adaptation
                                        THEN px.child1 ELSE @]
        child2 == [p2 EXCEPT !.genes = [c \in DOMAIN p2.genes |-> x[c].child2],
                             !.probas = IF cfg.enable_auto_adaptation
                                        THEN px.child2 ELSE @]
    IN  <<invalidate_fitness(child1), invalidate_fitness(child2)>>

\* The masks of bits the uniform method may leave unswapped in one gene:
\* every draw is <= 1, and a draw of exactly 0 is <= 0.
StraightMasks(cfg) ==
    IF cfg.uniform_crossover_probability = "one"
    THEN {Scale(cfg.integer_bits)}
    ELSE GeneValues(cfg)

\* What one crossover() draws for n genes: m_cut_dist / m_cut_dist_proba
\* over [0, n * integer_bits - 1], or one mask per gene.
MethodDraws(cfg, n) ==
    IF cfg.crossover_method = "SINGLE_POINT_BIT_LEVEL"
    THEN 0 .. (n * cfg.integer_bits - 1)
    ELSE [1 .. n -> StraightMasks(cfg)]

CrossoverDraws(cfg) ==
    [genes : [1 .. cfg.number_of_vectors -> MethodDraws(cfg, cfg.dimension)],
     probas : IF cfg.enable_auto_adaptation
              THEN MethodDraws(cfg, cfg.number_of_vectors + 1)
              ELSE {0}]

\* std::shuffle(m_selected): entry i afterwards is entry perm[i] before.
ShufflePermutations(n) ==
    {f \in [1 .. n -> 1 .. n] : \A i, j \in 1 .. n : f[i] = f[j] => i = j}

shuffle(seq, perm) == [i \in DOMAIN seq |-> seq[perm[i]]]

\* One slot of m_population overwritten by a crossover child copied from
\* parent. A slot past the end is m_population[population_size]: the write
\* leaves the vector, which is undefined; here it reaches no member of the
\* engine.
put_child(e, slot, child, parent) ==
    IF slot > Len(e.m_population)
    THEN [e EXCEPT !.out_of_range = TRUE]
    ELSE [e EXCEPT !.m_population[slot] = child,
                   !.writes[slot] = @ + 1,
                   !.produced = @ \cup {child.genes},
                   !.unchanged =
                       IF /\ parent.evaluated
                          /\ child.genes = parent.genes
                          /\ child.probas = parent.probas
                       THEN @ \cup {slot} ELSE @ \ {slot}]

\* One loop of create_offspring(), from i (0, 2, ...) on: the children of
\* m_selected[i] and m_selected[i + 1] overwrite slots base + i and
\* base + i + 1. m_selected[i + 1] past the end of the buffer is an
\* undefined read: it delivers the individual beyond.
RECURSIVE offspring_pass(_, _, _, _, _)
offspring_pass(e, base, drawn, beyond, i) ==
    LET size == Len(e.m_selected)
    IN  IF i >= size THEN e
        ELSE LET p1 == e.m_selected[i + 1]
                 inside == i + 1 < size
                 p2 == IF inside THEN e.m_selected[i + 2] ELSE beyond
                 ch == crossover(e.m_config, p1, p2, drawn[(i \div 2) + 1])
                 e0 == IF inside THEN e ELSE [e EXCEPT !.out_of_range = TRUE]
                 e1 == put_child(e0, base + i + 1, ch[1], p1)
                 e2 == put_child(e1, base + i + 2, ch[2], p2)
             IN  offspring_pass(e2, base, drawn, beyond, i + 2)

\* create_offspring(): shuffle, pair up and overwrite the lower slots;
\* shuffle and pair up again and overwrite the slots from m_selected.size().
create_offspring(e, d, beyond) ==
    LET e1 == [e EXCEPT !.m_selected = shuffle(@, d.perm1),
                        !.writes = [i \in DOMAIN e.m_population |-> 0]]
        e2 == offspring_pass(e1, 0, d.cross1, beyond, 0)
        e3 == [e2 EXCEPT !.m_selected = shuffle(@, d.perm2)]
    IN  offspring_pass(e3, Len(e3.m_selected), d.cross2, beyond, 0)

\* Whether create_offspring() indexes past m_selected and m_population.
OddHalf(cfg) == get_half_population_size(cfg) % 2 = 1

\* What an undefined read past m_selected can deliver: any individual with
\* any genes of integer_type.
Beyond(cfg) ==
    {NewIndividual(g, p) : g \in Genotypes(cfg, IntegerValues),
                           p \in ProbaGenes(cfg, IntegerValues)}

\* The outcomes of create_offspring()'s undefined accesses: what the read
\* past m_selected delivers, and whether the process stops. With an even
\* half there is no such access.
UndefinedOutcomes(e) ==
    IF OddHalf(e.m_config)
    THEN [beyond : Beyond(e.m_config), stops : BOOLEAN]
    ELSE {[beyond |-> e.m_best_individual, stops |-> FALSE]}

\* What one create_offspring() draws: two shuffles and the draws of the
\* crossovers of each pass.
OffspringDraws(cfg) ==
    LET half == get_half_population_size(cfg)
        pairs == (half + 1) \div 2
    IN  [perm1 : ShufflePermutations(half),
         cross1 : [1 .. pairs -> CrossoverDraws(cfg)],
         perm2 : ShufflePermutations(half),
         cross2 : [1 .. pairs -> CrossoverDraws(cfg)]]

\* The probability Individu::mutate uses for gene vector c of ind
\* (c = number_of_vectors + 1: the probability genes themselves): the
\* decoded probability gene with auto-adaptation, else the Config's.
MutationProbability(cfg, ind, c) ==
    IF cfg.enable_auto_adaptation
    THEN (IF ind.probas[c] = 0 THEN "zero"
          ELSE IF ind.probas[c] = Scale(cfg.integer_bits) THEN "one"
          ELSE "mid")
    ELSE cfg.initial_mutation_probability

\* What Individu::mutate can flip in ind.
MutationDraws(cfg, ind) ==
    [genes : {f \in Genotypes(cfg, GeneValues(cfg)) :
                \A c \in 1 .. cfg.number_of_vectors :
                    \A i \in 1 .. cfg.dimension :
                        f[c][i] \in FlipMasks(cfg, MutationProbability(cfg, ind, c))},
     probas : IF cfg.enable_auto_adaptation
              THEN [1 .. cfg.number_of_vectors + 1 ->
                       FlipMasks(cfg, MutationProbability(cfg, ind,
                                                          cfg.number_of_vectors + 1))]
              ELSE {[i \in 1 .. cfg.number_of_vectors + 1 |-> 0]}]

\* What one mutate_population() can flip: for every member, what
\* Individu::mutate can flip in it.
PopulationMutationDraws(e) ==
    LET cfg == e.m_config
        any == [genes : Genotypes(cfg, GeneValues(cfg)),
                probas : ProbaGenes(cfg, GeneValues(cfg))]
    IN  {f \in [DOMAIN e.m_population -> any] :
            \A i \in DOMAIN e.m_population :
                f[i] \in MutationDraws(cfg, e.m_population[i])}

\* mutate_population() with the elite aliased: a member that holds the best
\* individual's genes shares its storage, so its mutation shows in
\* m_best_individual.
mutate_population_through_elite(e, flips) ==
    LET after == [i \in DOMAIN e.m_population |->
                     mutate(e.m_population[i], flips[i].genes, flips[i].probas)]
        shared == {i \in DOMAIN e.m_population :
                      e.m_population[i].genes = e.m_best_individual.genes}
    IN  [e EXCEPT !.m_population = after,
                  !.m_best_individual =
                      IF shared = {} THEN @
                      ELSE after[CHOOSE i \in shared : TRUE],
                  !.produced = @ \cup GenesOf(after),
                  !.unchanged = {i \in @ : after[i].genes = e.m_population[i].genes
                                        /\ after[i].probas = e.m_population[i].probas}]

\* mutate_population(): ind.mutate(m_rng) for every member; flips[i] is what
\* is flipped in member i.
mutate_population(e, flips) ==
    LET after == [i \in DOMAIN e.m_population |->
                     mutate(e.m_population[i], flips[i].genes, flips[i].probas)]
    IN  [e EXCEPT !.m_population = after,
                  !.produced = @ \cup GenesOf(after),
                  !.unchanged = {i \in @ : after[i].genes = e.m_population[i].genes
                                        /\ after[i].probas = e.m_population[i].probas}]

\* add_best() that writes nothing.
add_best_nowhere(e, indice) == e

\* add_best() that clears the cache of the individual it writes.
add_best_invalidated(e, indice) ==
    [e EXCEPT !.m_population[indice] = invalidate_fitness(e.m_best_individual),
              !.unchanged = @ \ {indice}]

\* add_best(): one random slot is overwritten by m_best_individual.
add_best(e, indice) ==
    [e EXCEPT !.m_population[indice] = e.m_best_individual,
              !.unchanged = @ \ {indice}]

\* ------------------------------------------------------------------------
\* The control flow of the constructor, run() and step()
\* ------------------------------------------------------------------------

\* The constructor without its call of validate().
construct_unvalidated(e, drawn) == Constructed(e, drawn)

\* GeneticAlgorithm(config, fitness_func, seed): validate() throws on an
\* invalid Config, else the population is initialised.
construct(e, drawn) ==
    IF validate(e.m_config) THEN Constructed(e, drawn)
    ELSE [e EXCEPT !.pc = "invalid", !.error = "invalid_argument"]

\* The value-initialised Individu: zero genes, no cached fitness.
DefaultIndividual(cfg) ==
    NewIndividual([c \in 1 .. cfg.number_of_vectors |->
                      [i \in 1 .. cfg.dimension |-> 0]],
                  [i \in 1 .. cfg.number_of_vectors + 1 |-> 0])

\* What reset(config) draws from m_rng: the new m_best_individual and the
\* new population.
ResetDraws(cfg) ==
    [best : [genes : Genotypes(cfg, GeneValues(cfg)),
             probas : ProbaGenes(cfg, GeneValues(cfg))],
     population : PopulationDraws(cfg)]

\* reset(config) that validates m_config after the assignments instead of
\* config before them.
reset_validates_late(e, cfg, d) ==
    IF ~validate(cfg)
    THEN [e EXCEPT !.m_current_generation = 0, !.m_config = cfg,
                   !.error = "invalid_argument", !.resets = @ + 1]
    ELSE [e EXCEPT !.m_current_generation = 0, !.m_config = cfg,
                   !.error = "none", !.resets = @ + 1]

\* reset(config): config.validate() throws before anything is assigned;
\* else the members are reinitialised in the order of the code. The
\* instrumentation starts afresh, but for the counts of run() and reset()
\* calls. When the
\* fitness function throws in initialize_population() the exception leaves
\* reset() before m_selected is cleared.
reset(e, cfg, d) ==
    IF ~validate(cfg)
    THEN [e EXCEPT !.error = "invalid_argument", !.resets = @ + 1]
    ELSE LET e0 == [e EXCEPT
                       !.m_current_generation = 0,
                       !.m_config = cfg,
                       !.m_best_fitness = Lowest,
                       !.m_best_individual =
                           NewIndividual(d.best.genes, d.best.probas),
                       !.error = "none", !.resets = @ + 1,
                       !.gen = 0, !.has_callback = FALSE,
                       !.steps = 0, !.log = <<>>, !.calls = 0,
                       !.failed_calls = 0,
                       !.returned = {}, !.produced = {d.best.genes},
                       !.reinvoked = FALSE, !.out_of_range = FALSE,
                       !.bad_args = FALSE, !.writes = <<>>]
             e1 == initialize_population(e0, d.population)
         IN  IF e1.error # "none" THEN e1
             ELSE [e1 EXCEPT !.m_selected =
                                 [i \in 1 .. get_half_population_size(cfg) |->
                                     DefaultIndividual(cfg)]]

\* The caller's position after an operation of run(): back at the caller
\* when an exception is under way, else at next.
propagate(e, next) ==
    IF e.error # "none" THEN [e EXCEPT !.pc = "ready"] ELSE [e EXCEPT !.pc = next]

\* run() starting its count of generations afresh: m_current_generation is
\* set back to 0 on entry.
run_enter_restarting(e, callback) ==
    [e EXCEPT !.gen = 0, !.steps = 0, !.log = <<>>, !.error = "none",
              !.has_callback = callback, !.runs = @ + 1,
              !.m_current_generation = 0,
              !.pc = IF 0 < e.m_config.max_generations
                     THEN "selection" ELSE "ready"]

\* run(verbose, callback): entering the loop with gen = 0
run_enter(e, callback) ==
    [e EXCEPT !.gen = 0, !.steps = 0, !.log = <<>>, !.error = "none",
              !.has_callback = callback, !.runs = @ + 1,
              !.pc = IF 0 < e.m_config.max_generations
                     THEN "selection" ELSE "ready"]

\* run(): gen++ and the loop test; run() returns when it fails
run_loop(e) ==
    [e EXCEPT !.gen = @ + 1,
              !.pc = IF e.gen + 1 < e.m_config.max_generations
                     THEN "selection" ELSE "ready"]

\* step(): selection()
step_selection(e, drawn) ==
    LET e1 == selection(e, drawn)
    IN  propagate([e1 EXCEPT !.drawn = IF e1.error = "none" THEN drawn ELSE <<>>],
                  IF e.m_config.enable_elitism THEN "save_best"
                  ELSE "create_offspring")

\* step(): if (enable_elitism) update_best()
step_save_best(e) ==
    propagate([update_best(e) EXCEPT !.drawn = <<>>], "create_offspring")

\* step(): create_offspring(). With an odd half population the indices
\* leave m_selected and m_population: the process may stop there.
step_create_offspring(e, d, u) ==
    IF OddHalf(e.m_config) /\ u.stops
    THEN [e EXCEPT !.out_of_range = TRUE, !.drawn = <<>>, !.pc = "crashed"]
    ELSE [create_offspring(e, d, u.beyond) EXCEPT
              !.drawn = <<>>, !.pc = "mutate_population"]

\* step() going from mutate_population() straight to the closing
\* update_best(), the elite not reinjected.
step_mutate_population_then_update(e, flips) ==
    [mutate_population(e, flips) EXCEPT !.pc = "update_best"]

\* step(): mutate_population()
step_mutate_population(e, flips) ==
    [mutate_population(e, flips) EXCEPT
        !.pc = IF e.m_config.enable_elitism THEN "add_best"
               ELSE "update_best"]

\* step(): if (enable_elitism) add_best()
step_add_best(e, indice) == [add_best(e, indice) EXCEPT !.pc = "update_best"]

\* step() that catches what its last update_best() throws and goes on.
step_update_best_swallowing(e) ==
    LET e0 == [update_best(e) EXCEPT !.error = "none"]
        e1 == [e0 EXCEPT !.m_current_generation = @ + 1, !.steps = @ + 1]
    IN  IF e.has_callback THEN [e1 EXCEPT !.pc = "callback"]
        ELSE run_loop(e1)

\* step(): update_best(); m_current_generation++. Back in run(), the
\* callback is next when one was supplied.
step_update_best(e) ==
    LET e0 == update_best(e)
        e1 == [e0 EXCEPT !.m_current_generation = @ + 1, !.steps = @ + 1]
    IN  IF e0.error # "none" THEN propagate(e0, "ready")
        ELSE IF e.has_callback THEN [e1 EXCEPT !.pc = "callback"]
        ELSE run_loop(e1)

\* run() handing the callback the generation's number counted from one, as
\* the verbose output prints it.
run_callback_one_based(e, throws) ==
    LET e1 == [e EXCEPT !.log = Append(@, [gen |-> e.gen + 1,
                                           fitness |-> e.m_best_fitness,
                                           best |-> e.m_best_individual])]
    IN  IF throws THEN [e1 EXCEPT !.error = "callback", !.pc = "ready"]
        ELSE run_loop(e1)

\* run(): callback(gen, m_best_fitness, m_best_individual). When the
\* callback throws, run() is left by the exception.
run_callback(e, throws) ==
    LET e1 == [e EXCEPT !.log = Append(@, [gen |-> e.gen,
                                           fitness |-> e.m_best_fitness,
                                           best |-> e.m_best_individual])]
    IN  IF throws THEN [e1 EXCEPT !.error = "callback", !.pc = "ready"]
        ELSE run_loop(e1)

\* ------------------------------------------------------------------------
\* One engine
\* ------------------------------------------------------------------------

VARIABLES ga, gb, tape

vars == <<ga, gb, tape>>

\* The Configs of the model: the default one (genes of one bit), the default
\* one with one field changed, one with genes of two bits whose mutation
\* flips no bit, and one with a population of two, whose half is odd; each
\* for every max_generations up to the bound.
TwoBits == [DefaultConfig EXCEPT !.integer_bits = 2]

OneBitConfigs ==
    { DefaultConfig,
      [DefaultConfig EXCEPT !.enable_elitism = FALSE],
      [DefaultConfig EXCEPT !.crossover_method = "UNIFORM_BIT_LEVEL"],
      [DefaultConfig EXCEPT !.tournament_size = 2],
      [DefaultConfig EXCEPT !.initial_mutation_probability = "one"] }

TwoBitConfigs == { [TwoBits EXCEPT !.initial_mutation_probability = "zero"] }

OddHalfConfigs == { [DefaultConfig EXCEPT !.population_size = 2] }

Generations(cfgs) ==
    {[cfg EXCEPT !.max_generations = g] : cfg \in cfgs, g \in 1 .. MaxGenerations}

ValidConfigs == Generations(OneBitConfigs \cup TwoBitConfigs \cup OddHalfConfigs)

InvalidConfigs ==
    { [DefaultConfig EXCEPT !.population_size = 3],
      [DefaultConfig EXCEPT !.min_real = 1, !.max_real = -1],
      [DefaultConfig EXCEPT !.min_real = 1, !.max_real = 1] }

Configs == ValidConfigs \cup InvalidConfigs

\* n calls of run() in a row.
Runs(n) == [i \in 1 .. n |-> "run"]

\* What the caller does with an engine of the default Config: up to MaxRuns
\* runs, or a reset() before, after or instead of a run.
LongPlans ==
    {Runs(n) : n \in 1 .. MaxRuns}
        \cup {<<"reset">>, <<"reset", "run">>, <<"run", "reset">>}

\* The engines constructed and what their callers do with them: every
\* Config with the sum of the coordinates as fitness function, the default
\* and the two bit ones with the sphere too, the default one with the
\* constant functions and the throwing one too, each run once; the default
\* Config of one generation with the longer plans.
Setups ==
    ((Configs \X {"sum"}) \X {Runs(1)})
        \cup ((Generations({DefaultConfig} \cup TwoBitConfigs) \X {"sphere"})
                 \X {Runs(1)})
        \cup ((Generations({DefaultConfig}) \X {"lowest", "neg_inf", "partial"})
                 \X {Runs(1)})
        \cup (({DefaultConfig} \X {"sum", "partial"}) \X LongPlans)
        \cup (({DefaultConfig} \X {"lowest"}) \X {<<"reset">>})
        \cup (({[DefaultConfig EXCEPT !.tournament_size = 2]} \X {"sphere"})
                 \X {Runs(1)})

\* The Configs handed to reset(): the default one, one with another
\* population_size, one with another min_real, and an invalid one.
ResetConfigs ==
    { DefaultConfig,
      [DefaultConfig EXCEPT !.population_size = 2],
      [DefaultConfig EXCEPT !.min_real = -2],
      [DefaultConfig EXCEPT !.population_size = 3] }

\* The caller's next call is call: the engine exists and is in no call.
Calls(e, call) ==
    /\ e.pc = "ready"
    /\ e.plan # <<>>
    /\ Head(e.plan) = call

\* The caller has made the call.
called(e) == [e EXCEPT !.plan = Tail(e.plan)]

\* An engine of the other variables' specification that is not there.
NoEngine == [pc |-> "none"]

Init ==
    /\ \E s \in Setups :
         ga = [NewEngine(s[1][1], s[1][2], 7, 1, DefaultIndividual(s[1][1]))
                  EXCEPT !.plan = s[2]]
    /\ gb = NoEngine
    /\ tape = <<>>

Construct ==
    /\ ga.pc = "new"
    /\ \E drawn \in PopulationDraws(ga.m_config) : ga' = construct(ga, drawn)
    /\ UNCHANGED <<gb, tape>>

Run ==
    /\ Calls(ga, "run")
    /\ \E callback \in BOOLEAN : ga' = run_enter(called(ga), callback)
    /\ UNCHANGED <<gb, tape>>

Selection ==
    /\ ga.pc = "selection"
    /\ \E drawn \in SelectionDraws(ga.m_config) : ga' = step_selection(ga, drawn)
    /\ UNCHANGED <<gb, tape>>

SaveBest ==
    /\ ga.pc = "save_best"
    /\ ga' = step_save_best(ga)
    /\ UNCHANGED <<gb, tape>>

CreateOffspring ==
    /\ ga.pc = "create_offspring"
    /\ \E d \in OffspringDraws(ga.m_config), u \in UndefinedOutcomes(ga) :
         ga' = step_create_offspring(ga, d, u)
    /\ UNCHANGED <<gb, tape>>

MutatePopulation ==
    /\ ga.pc = "mutate_population"
    /\ \E flips \in PopulationMutationDraws(ga) :
         ga' = step_mutate_population(ga, flips)
    /\ UNCHANGED <<gb, tape>>

AddBest ==
    /\ ga.pc = "add_best"
    /\ \E indice \in 1 .. ga.m_config.population_size :
         ga' = step_add_best(ga, indice)
    /\ UNCHANGED <<gb, tape>>

UpdateBest ==
    /\ ga.pc = "update_best"
    /\ ga' = step_update_best(ga)
    /\ UNCHANGED <<gb, tape>>

Callback ==
    /\ ga.pc = "callback"
    /\ \E throws \in BOOLEAN : ga' = run_callback(ga, throws)
    /\ UNCHANGED <<gb, tape>>

Reset ==
    /\ Calls(ga, "reset")
    /\ \E cfg \in ResetConfigs : \E d \in ResetDraws(cfg) :
         ga' = reset(called(ga), cfg, d)
    /\ UNCHANGED <<gb, tape>>

Next ==
    \/ Construct
    \/ Run
    \/ Selection
    \/ SaveBest
    \/ CreateOffspring
    \/ MutatePopulation
    \/ AddBest
    \/ UpdateBest
    \/ Callback
    \/ Reset

Spec == Init /\ [][Next]_vars

-----------------------------------------------------------------------------
\* Two engines side by side, as in example5_reproducible: gb is built and run
\* like ga. tape holds what ga's generator has delivered and gb's has not
\* yet: a generator seeded like ga's delivers the same values in the same
\* order, any other one delivers values of its own.

\* What random_device can deliver when the seed is 0.
Entropy == {1, 2}

\* The seeds given to the constructor: 0 asks for random_device.
Seeds == {0, 7}

TwinConfigs == {DefaultConfig} \cup OddHalfConfigs

\* The engine has an operation left to do.
Running(e) ==
    /\ e.pc \notin {"invalid", "failed", "crashed"}
    /\ e.pc = "ready" => Calls(e, "run")

\* What the engine's next operation draws from m_rng.
RngDraws(e) ==
    CASE e.pc = "new" -> PopulationDraws(e.m_config)
      [] e.pc = "selection" -> SelectionDraws(e.m_config)
      [] e.pc = "create_offspring" -> OffspringDraws(e.m_config)
      [] e.pc = "mutate_population" -> PopulationMutationDraws(e)
      [] e.pc = "add_best" -> 1 .. e.m_config.population_size
      [] OTHER -> {0}

\* The engine's next operation, run() being called with a callback.
advance(e, d, u) ==
    CASE e.pc = "new" -> construct(e, d)
      [] e.pc = "ready" -> run_enter(called(e), TRUE)
      [] e.pc = "selection" -> step_selection(e, d)
      [] e.pc = "save_best" -> step_save_best(e)
      [] e.pc = "create_offspring" -> step_create_offspring(e, d, u)
      [] e.pc = "mutate_population" -> step_mutate_population(e, d)
      [] e.pc = "add_best" -> step_add_best(e, d)
      [] e.pc = "update_best" -> step_update_best(e)
      [] e.pc = "callback" -> run_callback(e, FALSE)
      [] OTHER -> e

TwinInit ==
    /\ \E cfg \in TwinConfigs, seed \in Seeds, ea \in Entropy, eb \in Entropy :
         /\ ga = [NewEngine(cfg, "sum", seed, ea, DefaultIndividual(cfg))
                    EXCEPT !.plan = Runs(1)]
         /\ gb = [NewEngine(cfg, "sum", seed, eb, DefaultIndividual(cfg))
                    EXCEPT !.plan = Runs(1)]
    /\ tape = <<>>

TwinLead ==
    /\ tape = <<>>
    /\ Running(ga)
    /\ \E d \in RngDraws(ga), u \in UndefinedOutcomes(ga) :
         /\ ga' = advance(ga, d, u)
         /\ tape' = <<d>>
    /\ UNCHANGED gb

TwinFollow ==
    /\ tape # <<>>
    /\ \E d \in (IF gb.m_rng = ga.m_rng THEN {Head(tape)} ELSE RngDraws(gb)),
          u \in UndefinedOutcomes(gb) :
         gb' = IF Running(gb) THEN advance(gb, d, u) ELSE gb
    /\ tape' = Tail(tape)
    /\ UNCHANGED ga

TwinNext ==
    \/ TwinLead
    \/ TwinFollow

SpecTwin == TwinInit /\ [][TwinNext]_vars

-----------------------------------------------------------------------------
\* The fixed-point decode on its own: ga is the Config whose range and
\* integer_bits are decoded with, gb the value decoded for every bin.

\* Largest integer_bits decoded with.
MaxBits == 3

\* min_real and max_real are representable values up to two in magnitude.
DecodeInit ==
    /\ \E lo \in FloatValues(2 * One), hi \in FloatValues(2 * One),
          bits \in 1 .. MaxBits :
         /\ lo < hi
         /\ ga = [DefaultConfig EXCEPT !.min_real = lo, !.max_real = hi,
                                       !.integer_bits = bits]
    /\ gb = NoEngine
    /\ tape = <<>>

Decode ==
    /\ gb = NoEngine
    /\ gb' = [bin \in 0 .. Scale(ga.integer_bits) |->
                 bin_to_real_native(bin, ga.min_real, ga.max_real,
                                    ga.integer_bits)]
    /\ UNCHANGED <<ga, tape>>

SpecDecode == DecodeInit /\ [][Decode]_vars

-----------------------------------------------------------------------------
\* crossover(p1, p2) on its own: ga holds the Config and the two parents,
\* gb the two children and what the call drew.

\* The Configs crossed under: chromosomes of two genes of one or two bits,
\* both methods, with and without auto-adaptation.
CrossConfigs ==
    {[DefaultConfig EXCEPT !.dimension = 2, !.integer_bits = bits,
                           !.crossover_method = method,
                           !.enable_auto_adaptation = auto,
                           !.uniform_crossover_probability = proba] :
        bits \in 1 .. 2,
        method \in {"SINGLE_POINT_BIT_LEVEL", "UNIFORM_BIT_LEVEL"},
        auto \in BOOLEAN,
        proba \in {"mid", "one"}}

\* The mutation-probability genes of the first parent; the second parent
\* holds the complement of each.
ParentProbas(cfg) ==
    {[i \in 1 .. cfg.number_of_vectors + 1 |-> 0],
     [i \in 1 .. cfg.number_of_vectors + 1 |->
         IF i = 1 THEN 1 ELSE Scale(cfg.integer_bits) - 1]}

\* A parent as the population or the buffer holds it: evaluated or not.
Parent(cfg, genes, probas, evaluated) ==
    LET ind == NewIndividual(genes, probas)
    IN  IF evaluated
        THEN set_fitness(ind, Fitness("sum", to_real_vectors(cfg, ind)))
        ELSE ind

CrossInit ==
    /\ \E cfg \in CrossConfigs :
         \E g1 \in Genotypes(cfg, GeneValues(cfg)),
            g2 \in Genotypes(cfg, GeneValues(cfg)),
            pr \in ParentProbas(cfg), evaluated \in BOOLEAN :
             ga = [pc |-> "parents", m_config |-> cfg,
                   p1 |-> Parent(cfg, g1, pr, evaluated),
                   p2 |-> Parent(cfg, g2,
                                 [i \in DOMAIN pr |->
                                     Scale(cfg.integer_bits) - pr[i]],
                                 TRUE)]
    /\ gb = NoEngine
    /\ tape = <<>>

Cross ==
    /\ gb = NoEngine
    /\ \E d \in CrossoverDraws(ga.m_config) :
         LET ch == crossover(ga.m_config, ga.p1, ga.p2, d)
         IN  gb' = [pc |-> "children", child1 |-> ch[1], child2 |-> ch[2],
                    d |-> d]
    /\ UNCHANGED <<ga, tape>>

SpecCross == CrossInit /\ [][Cross]_vars

-----------------------------------------------------------------------------
\* Properties of one engine (Spec)

\* C1: with enable_elitism the tracked best fitness never decreases: after
\* every operation of the engine but reset(), so after every step(),
\* m_best_fitness is at least what it was before.
C1_ElitistBestFitnessNeverDecreases ==
    [][(ga.m_config.enable_elitism /\ ga'.resets = ga.resets)
          => ga'.m_best_fitness >= ga.m_best_fitness]_vars

\* An elitist run of two generations whose second step raised the best
\* fitness the first one left.
C1_SecondStepRaisedBest ==
    /\ ga.m_config.enable_elitism
    /\ Len(ga.log) = 2
    /\ ga.log[2].fitness > ga.log[1].fitness

\* C2: with enable_elitism, at the end of every step() some member of the
\* population has the genes of m_best_individual.
C2_EliteInPopulationAtStepEnd ==
    (/\ ga.m_config.enable_elitism
     /\ ga.steps >= 1
     /\ ga.pc \in {"callback", "selection", "ready"})
        => \E i \in DOMAIN ga.m_population :
              ga.m_population[i].genes = ga.m_best_individual.genes

\* The end of an elitist step where the slot add_best() wrote is the only
\* one with the genes of the best individual, and that individual is
\* older than the step.
C2_OnlyTheReinjectedEliteHasBestGenes ==
    /\ ga.m_config.enable_elitism
    /\ ga.steps = 2
    /\ ga.pc = "callback"
    /\ ga.log[1].fitness = ga.m_best_fitness
    /\ Cardinality({i \in DOMAIN ga.m_population :
           ga.m_population[i].genes = ga.m_best_individual.genes}) = 1

\* C3: after construction and after every step(), m_best_fitness is the
\* maximum of the values the fitness function has returned, and no member
\* of the population has a greater fitness.
C3_BestIsMaxOfReturned ==
    ga.pc \in {"ready", "selection", "callback"}
        => /\ ga.m_best_fitness = Max(ga.returned)
           /\ \A i \in DOMAIN ga.m_population :
                 ga.m_population[i].fitness <= ga.m_best_fitness

\* C4 as stated: the fitness function is never invoked on an unevaluated
\* copy of an evaluated individual whose genes are those of the original.
C4_NeverInvokedOnUnchangedCopy == ~ga.reinvoked

\* C4, amended: the operations that evaluate (selection(), update_best())
\* invoke the fitness function exactly once for each member they find with
\* the evaluated flag clear and cache what it returned, leave the members
\* with the flag set as they are, and update_best() leaves every member
\* evaluated; an invocation that throws is the last one and caches nothing;
\* no other operation of a step invokes it.
C4_InvokedExactlyOnClearFlag ==
    [][LET before == ga.m_population
           after == ga'.m_population
       IN  IF ga.pc \in {"selection", "save_best", "update_best"}
           THEN /\ \A i \in DOMAIN before :
                     before[i].evaluated => after[i] = before[i]
                /\ ga'.calls - ga.calls =
                     Cardinality({i \in DOMAIN before :
                        ~before[i].evaluated /\ after[i].evaluated})
                       + (ga'.failed_calls - ga.failed_calls)
                /\ ga'.failed_calls - ga.failed_calls =
                     IF ga'.error = "fitness" THEN 1 ELSE 0
                /\ \A i \in DOMAIN after :
                     after[i].evaluated =>
                        after[i].fitness =
                           Fitness(ga.m_fitness_func,
                                   to_real_vectors(ga.m_config, after[i]))
                /\ (ga.pc # "selection" /\ ga'.error = "none")
                     => \A i \in DOMAIN after : after[i].evaluated
           ELSE ga.pc \notin {"new", "ready"} => ga'.calls = ga.calls]_vars

\* The end of the first elitist step of a population of four: four
\* invocations at construction, three in the step, the reinjected elite
\* being served from its cache.
C4_EliteServedFromCache ==
    /\ ga.m_config.enable_elitism
    /\ ga.m_best_individual.evaluated
    /\ ga.pc = "callback"
    /\ ga.steps = 1
    /\ ga.m_config.population_size = 4
    /\ ga.calls = 7

C6_EveryIndexInRange == ga.pc # "invalid" => ~ga.out_of_range

\* C7: run() on a fresh engine does not stop inside a step, and when it has
\* returned step() ran max_generations times, m_current_generation is
\* max_generations and m_best_fitness is a value the fitness function
\* returned.
C7_RunReturnsAfterMaxGenerations ==
    /\ ga.pc # "crashed"
    /\ (ga.pc = "ready" /\ ga.runs = 1 /\ ga.resets = 0 /\ ga.error = "none")
          => /\ ga.steps = ga.m_config.max_generations
             /\ ga.m_current_generation = ga.m_config.max_generations
             /\ ga.m_best_fitness \in ga.returned

\* C8: run() with a callback has invoked it once per completed step and not
\* yet for the step under way, with the indices 0, 1, ... in order,
\* max_generations times when run() has returned, and the last invocation
\* got the best fitness and the best individual the engine holds after that
\* step (until the next step's update_best() begins).
C8_CallbackOncePerStep ==
    ga.has_callback
        => /\ Len(ga.log) = IF ga.pc = "callback" THEN ga.steps - 1
                            ELSE ga.steps
           /\ \A k \in DOMAIN ga.log : ga.log[k].gen = k - 1
           /\ (ga.pc = "ready" /\ ga.error = "none")
                 => Len(ga.log) = ga.m_config.max_generations
           /\ (ga.pc \in {"selection", "ready"} /\ ga.log # <<>>
                 /\ ga.error # "fitness")
                 => /\ ga.log[Len(ga.log)].fitness = ga.m_best_fitness
                    /\ ga.log[Len(ga.log)].best = ga.m_best_individual

\* A run() of two generations that has returned after two invocations of
\* its callback.
C8_TwoCallbacksThenReturn ==
    /\ ga.has_callback
    /\ ga.pc = "ready"
    /\ ga.m_config.max_generations = 2
    /\ Len(ga.log) = 2

\* C10: the constructor's validate() passes the default Config and throws
\* for every Config with min_real >= max_real and for every Config with an
\* odd population_size.
C10_ValidateVerdicts ==
    ga.pc # "new"
        => /\ ga.m_config.min_real >= ga.m_config.max_real
                 => ga.pc = "invalid"
           /\ ga.m_config.population_size % 2 = 1 => ga.pc = "invalid"
           /\ [ga.m_config EXCEPT !.max_generations =
                                      DefaultConfig.max_generations]
                    = DefaultConfig
                 => ga.pc # "invalid"

\* A construction that validate() refused because min_real equals
\* max_real.
C10_EqualBoundsRefused ==
    /\ ga.pc = "invalid"
    /\ ga.m_config.min_real = ga.m_config.max_real

\* C11: a construction that validate() refuses creates and evaluates no
\* individual, and a reset(config) that validate() refuses leaves m_config,
\* m_population, m_selected, m_current_generation, m_best_fitness and
\* m_best_individual as they were.
C11_InvalidConfigTouchesNothing ==
    [][/\ ga'.pc = "invalid"
            => /\ ga'.m_population = <<>>
               /\ ga'.m_selected = <<>>
               /\ ga'.calls = 0
               /\ ga'.produced = {}
       /\ (ga'.resets # ga.resets /\ ga'.error = "invalid_argument")
            => /\ ga'.m_config = ga.m_config
               /\ ga'.m_population = ga.m_population
               /\ ga'.m_selected = ga.m_selected
               /\ ga'.m_current_generation = ga.m_current_generation
               /\ ga'.m_best_fitness = ga.m_best_fitness
               /\ ga'.m_best_individual = ga.m_best_individual]_vars

\* An engine that has run a generation and then refused an invalid Config
\* in reset().
C11_ResetRefusedAfterARun ==
    /\ ga.resets = 1
    /\ ga.error = "invalid_argument"
    /\ ga.pc = "ready"
    /\ ga.m_current_generation = 1
    /\ Len(ga.m_population) = 4

\* C12: a reset(config) with a valid Config leaves m_current_generation 0,
\* a population of the new population_size, a buffer of half that size,
\* and as best fitness and best individual the greatest fitness of the new
\* population and a member of it that has it.
C12_ResetReinitialisesEverything ==
    [][(ga'.resets # ga.resets /\ ga'.error = "none")
         => /\ ga'.m_current_generation = 0
            /\ ga'.m_config \in ResetConfigs
            /\ Len(ga'.m_population) = ga'.m_config.population_size
            /\ Len(ga'.m_selected) = ga'.m_config.population_size \div 2
            /\ \A i \in DOMAIN ga'.m_population :
                  ga'.m_population[i].fitness <= ga'.m_best_fitness
            /\ \E i \in DOMAIN ga'.m_population :
                  /\ ga'.m_population[i] = ga'.m_best_individual
                  /\ ga'.m_population[i].fitness = ga'.m_best_fitness]_vars

\* C13: when the fitness function or the callback throws inside run(), the
\* exception is not caught and run() is left at once: the operation under way ends at the caller with the
\* generation counter and the count of steps as they were, a throwing
\* fitness function was invoked once more and not again, what the
\* operation had done so far stays (the genes are as before, the members
\* evaluated before the throw keep their cache, update_best() has recorded
\* the greatest fitness of the members before the one that threw), and
\* nothing happens until the caller calls again.
C13_ErrorLeavesRunAtOnce ==
    [][/\ (ga.pc \notin {"new", "ready"} /\ ga'.failed_calls # ga.failed_calls)
            => ga'.error = "fitness"
       /\ (ga.pc \notin {"new", "ready"} /\ ga'.error \in {"fitness", "callback"})
            => /\ ga'.pc = "ready"
               /\ ga'.m_current_generation = ga.m_current_generation
               /\ ga'.steps = ga.steps
               /\ ga'.gen = ga.gen
               /\ \A i \in DOMAIN ga.m_population :
                     /\ ga'.m_population[i].genes = ga.m_population[i].genes
                     /\ ga.m_population[i].evaluated
                           => ga'.m_population[i] = ga.m_population[i]
               /\ ga'.error = "fitness"
                     => /\ ga'.failed_calls = ga.failed_calls + 1
                        /\ ga'.log = ga.log
                        /\ ga'.m_best_fitness =
                              IF ga.pc = "selection" THEN ga.m_best_fitness
                              ELSE Max({ga.m_best_fitness} \cup
                                       {ga'.m_population[i].fitness :
                                          i \in {j \in DOMAIN ga'.m_population :
                                             \A k \in 1 .. j :
                                                ga'.m_population[k].evaluated}})
               /\ ga'.error = "callback"
                     => /\ Len(ga'.log) = Len(ga.log) + 1
                        /\ ga'.m_population = ga.m_population
                        /\ ga'.m_best_fitness = ga.m_best_fitness
       /\ ga.error \in {"fitness", "callback"}
            => /\ ga.pc \in {"ready", "failed"}
               /\ ga'.runs # ga.runs \/ ga'.resets # ga.resets]_vars

\* A run() of two generations left by the fitness function's exception in
\* its second step, after that step's update_best() had evaluated a member.
C13_FitnessThrewInSecondStep ==
    /\ ga.error = "fitness"
    /\ ga.pc = "ready"
    /\ ga.m_config.max_generations = 2
    /\ ga.steps = 1
    /\ ga.m_current_generation = 1
    /\ \E i, j \in DOMAIN ga.m_population :
          ga.m_population[i].evaluated /\ ~ga.m_population[j].evaluated

\* C15: every invocation of the fitness function receives exactly
\* number_of_vectors vectors of dimension reals, each in [min_real, max_real].
C15_FitnessArgumentsWellFormed == ~ga.bad_args

\* C16 as stated: in every reachable state, also after run() has returned and
\* after run() is called again, current_generation lies in
\* 0 .. max_generations - 1.
C16_CounterBelowMaxGenerations ==
    ga.m_config.max_generations > 0
        => ga.m_current_generation \in 0 .. (ga.m_config.max_generations - 1)

\* C16 amended: current_generation counts the step() calls completed since
\* construction or the last accepted reset(). It is incremented by exactly
\* one at the end of each step() that completes, an accepted reset() sets it
\* to 0, and nothing else changes it: run() does not set it back, so it is
\* max_generations when a first run() returns and grows beyond when run() is
\* called again, up to max_generations for each run() entered.
C16_CounterCountsCompletedSteps ==
    [][/\ ga.m_current_generation >= 0
       /\ IF ga'.resets # ga.resets
          THEN ga'.m_current_generation =
                   IF ga'.error = "invalid_argument"
                   THEN ga.m_current_generation ELSE 0
          ELSE IF ga.pc = "update_best" /\ ga'.error = "none"
          THEN ga'.m_current_generation = ga.m_current_generation + 1
          ELSE ga'.m_current_generation = ga.m_current_generation
       /\ ga.resets = 0
             => ga.m_current_generation
                    <= ga.runs * ga.m_config.max_generations]_vars

\* C16 witness: a second run() has completed a step and the counter is
\* beyond max_generations.
C16_SecondRunCountsOn ==
    /\ ga.runs = 2
    /\ ga.resets = 0
    /\ ga.m_current_generation > ga.m_config.max_generations

C18_EverySlotOverwrittenOnce ==
    ga.pc = "mutate_population"
        => /\ ~ga.out_of_range
           /\ \A i \in DOMAIN ga.m_population : ga.writes[i] = 1

\* C19 as stated: after selection() every population slot holds the same
\* genes, mutation-probability genes, cached fitness and evaluated flag as
\* before the call.
C19_SelectionLeavesPopulationAlone ==
    [][ga.pc = "selection" => ga'.m_population = ga.m_population]_vars

\* C19 amended: selection() changes no member's genes or mutation-probability
\* genes and no cached fitness that is valid; a member whose cache is invalid
\* and that a tournament draws is evaluated in place (fitness cached, flag
\* set). Every member is evaluated when selection() starts unless an
\* exception of the fitness function interrupted an earlier update_best();
\* then the population is the same after the call.
C19_SelectionOnlyFillsCaches ==
    [][ga.pc = "selection"
         => /\ Len(ga'.m_population) = Len(ga.m_population)
            /\ \A j \in DOMAIN ga.m_population :
                  LET before == ga.m_population[j]
                      after == ga'.m_population[j]
                  IN  /\ after.genes = before.genes
                      /\ after.probas = before.probas
                      /\ before.evaluated => after = before
                      /\ after # before
                            => after = set_fitness(before,
                                   Fitness(ga.m_fitness_func,
                                       to_real_vectors(ga.m_config, before)))
            /\ ga.failed_calls = 0 => ga'.m_population = ga.m_population
            /\ ga'.m_best_individual = ga.m_best_individual
            /\ ga'.m_best_fitness = ga.m_best_fitness]_vars

\* C19 witness: selection() has returned and, behind a member that is still
\* unevaluated, two members are evaluated: add_best() accounts for one at
\* most, selection() evaluated the other in place.
C19_SelectionEvaluatedInPlace ==
    /\ ga.pc \in {"save_best", "create_offspring"}
    /\ ga.error = "none"
    /\ Cardinality({j \in DOMAIN ga.m_population :
                       /\ ga.m_population[j].evaluated
                       /\ \E k \in 1 .. (j - 1) :
                             ~ga.m_population[k].evaluated}) >= 2

\* The population slot that wins a tournament over the drawn indices idxs:
\* the earliest-drawn one among those of greatest fitness.
Winner(population, idxs) ==
    LET fit(t) == population[idxs[t]].fitness
        first == CHOOSE t \in DOMAIN idxs :
                     /\ \A u \in DOMAIN idxs : fit(u) <= fit(t)
                     /\ \A u \in 1 .. (t - 1) : fit(u) < fit(t)
    IN  idxs[first]

\* C20: selection() fills population_size / 2 buffer entries (and no other);
\* each is a copy of the member that has the greatest fitness among the
\* tournament_size indices drawn for it, the earliest-drawn winning ties.
C20_TournamentKeepsEarliestGreatest ==
    [][(ga.pc = "selection" /\ ga'.error = "none")
         => LET half == get_half_population_size(ga.m_config)
            IN  /\ ga'.drawn \in SelectionDraws(ga.m_config)
                /\ Len(ga'.m_selected) = Len(ga.m_selected)
                /\ \A i \in DOMAIN ga.m_selected :
                      ga'.m_selected[i] =
                          IF i <= half
                          THEN ga'.m_population[
                                   Winner(ga'.m_population, ga'.drawn[i])]
                          ELSE ga.m_selected[i]]_vars

\* C20 witness: a tournament drew two members of equal fitness and other
\* genes, and the buffer entry is a copy of the one drawn first.
C20_TieWentToTheEarliest ==
    /\ ga.drawn # <<>>
    /\ ga.m_config.tournament_size = 2
    /\ \E i \in DOMAIN ga.drawn :
          LET a == ga.m_population[ga.drawn[i][1]]
              b == ga.m_population[ga.drawn[i][2]]
          IN  /\ a.fitness = b.fitness
              /\ a.genes # b.genes
              /\ ga.m_selected[i] = a

\* Whether the cache of ind is that of its genes: an evaluated individual
\* carries the fitness function's value for its genes as the engine's
\* Config decodes them.
Coherent(e, ind) ==
    ind.evaluated
        => ind.fitness = Fitness(e.m_fitness_func,
                                 to_real_vectors(e.m_config, ind))

\* C24: cache coherence. In every reachable state every evaluated individual
\* of the population, of the selected-parents buffer, and the best
\* individual carry a cached fitness equal to the fitness function applied
\* to their current genes.
C24_EveryCacheIsCoherent ==
    ga.pc \notin {"new", "invalid"}
        => /\ \A i \in DOMAIN ga.m_population :
                 Coherent(ga, ga.m_population[i])
           /\ \A i \in DOMAIN ga.m_selected : Coherent(ga, ga.m_selected[i])
           /\ Coherent(ga, ga.m_best_individual)

\* C25: individuals are copied, never aliased. The best individual and the
\* best fitness are changed only by update_best() (in the constructor, in
\* step() and in reset()): create_offspring(), mutate_population(),
\* add_best(), selection() and run()'s own steps leave them as they were;
\* create_offspring() overwrites population slots and leaves the parents in
\* the selected-parents buffer the same individuals, reordered by its
\* shuffles.
C25_BestAndParentsAreCopies ==
    [][/\ (\/ ga'.m_best_individual # ga.m_best_individual
           \/ ga'.m_best_fitness # ga.m_best_fitness)
            => \/ ga.pc \in {"new", "save_best", "update_best"}
               \/ ga'.resets # ga.resets
       /\ (ga.pc = "create_offspring" /\ ga'.pc # "crashed")
            => \E perm \in ShufflePermutations(Len(ga.m_selected)) :
                  ga'.m_selected = shuffle(ga.m_selected, perm)
       /\ ga.pc \in {"mutate_population", "add_best"}
            => ga'.m_selected = ga.m_selected]_vars

\* C25 witness: in a second generation create_offspring() and
\* mutate_population() have left no member with the best individual's
\* genes, the slot the elite was copied into included, and the best
\* individual still carries its fitness.
C25_EliteOutlivesItsSlot ==
    /\ ga.pc = "add_best"
    /\ ga.steps = 1
    /\ ga.m_best_individual.evaluated
    /\ ga.m_best_fitness = ga.m_best_individual.fitness
    /\ \A j \in DOMAIN ga.m_population :
          ga.m_population[j].genes # ga.m_best_individual.genes

\* C26: after construction, after every step() and after every successful
\* reset() the best fitness is the fitness function applied to the genes of
\* the best individual, and the best individual is an evaluated copy of a
\* member of the population, never a default-constructed or never-evaluated
\* individual, whatever the fitness function.
C26_BestIsAnEvaluatedMember ==
    (ga.pc \in {"ready", "selection", "callback"} /\ ga.error = "none")
        => /\ ga.m_best_individual.evaluated
           /\ ga.m_best_individual.fitness = ga.m_best_fitness
           /\ DOMAIN ga.m_best_individual.genes
                  = 1 .. ga.m_config.number_of_vectors
           /\ ga.m_best_fitness =
                  Fitness(ga.m_fitness_func,
                          to_real_vectors(ga.m_config, ga.m_best_individual))

C28_ContainersKeepTheirSizes ==
    ga.pc \notin {"new", "invalid", "failed"}
        => /\ Len(ga.m_population) = ga.m_config.population_size
           /\ Len(ga.m_selected) = get_half_population_size(ga.m_config)

-----------------------------------------------------------------------------
\* Properties of the decode (SpecDecode)

\* C14: bin_to_real maps 0 to min_real and 2^bits - 1 to max_real exactly,
\* never decreases as bin grows, and maps (2^bits - 1) / 2 to within two
\* quantization steps (twice bin_to_real(1) - bin_to_real(0)) of
\* (min_real + max_real) / 2.
C14_DecodeExactAtEndsAndMonotonic ==
    gb # NoEngine
        => LET top == Scale(ga.integer_bits)
               step == gb[1] - gb[0]
           IN  /\ gb[0] = ga.min_real
               /\ gb[top] = ga.max_real
               /\ \A bin \in 1 .. top : gb[bin - 1] <= gb[bin]
               /\ Abs(2 * gb[top \div 2] - (ga.min_real + ga.max_real))
                     <= 4 * step

-----------------------------------------------------------------------------
\* Properties of crossover (SpecCross)

\* Bit pos of the flattened bit-string of a vector of genes: bit j of gene i
\* (counted from 0) is at position i * integer_bits + j.
FlatBit(genes, bits, pos) == Bit(genes[(pos \div bits) + 1], pos % bits)

\* Whether the pair a, b is the single-point splice of the vectors g1, g2
\* at cut: a is g1 below the cut and g2 from it on, b the mirror.
SplicedAt(cfg, g1, g2, a, b, cut) ==
    \A pos \in 0 .. (Len(g1) * cfg.integer_bits - 1) :
        LET bits == cfg.integer_bits
        IN  /\ FlatBit(a, bits, pos) =
                  IF pos < cut THEN FlatBit(g1, bits, pos)
                  ELSE FlatBit(g2, bits, pos)
            /\ FlatBit(b, bits, pos) =
                  IF pos < cut THEN FlatBit(g2, bits, pos)
                  ELSE FlatBit(g1, bits, pos)

\* Whether the pair a, b is the uniform recombination of g1, g2 under the
\* per-bit decisions straight: a bit whose decision is 1 goes from g1 to a
\* and from g2 to b, the others are swapped.
DecidedPerBit(cfg, g1, g2, a, b, straight) ==
    \A pos \in 0 .. (Len(g1) * cfg.integer_bits - 1) :
        LET bits == cfg.integer_bits
        IN  IF FlatBit(straight, bits, pos) = 1
            THEN /\ FlatBit(a, bits, pos) = FlatBit(g1, bits, pos)
                 /\ FlatBit(b, bits, pos) = FlatBit(g2, bits, pos)
            ELSE /\ FlatBit(a, bits, pos) = FlatBit(g2, bits, pos)
                 /\ FlatBit(b, bits, pos) = FlatBit(g1, bits, pos)

\* C21: single-point crossover loses and duplicates no bit: on the flattened
\* bit-string of every chromosome, child1 is parent1 below the cut point and
\* parent2 from it on, child2 is parent2 below and parent1 from it on.
C21_SinglePointSplicesAtTheCut ==
    (gb # NoEngine /\ ga.m_config.crossover_method = "SINGLE_POINT_BIT_LEVEL")
        => \A c \in DOMAIN ga.p1.genes :
              /\ gb.d.genes[c] \in
                     0 .. (ga.m_config.dimension * ga.m_config.integer_bits - 1)
              /\ SplicedAt(ga.m_config, ga.p1.genes[c], ga.p2.genes[c],
                           gb.child1.genes[c], gb.child2.genes[c],
                           gb.d.genes[c])

\* C21 witness: the cut fell inside a gene whose bits differ between the
\* parents on both sides of it, and the child's gene is neither parent's.
C21_CutInsideAGene ==
    /\ gb # NoEngine
    /\ ga.m_config.crossover_method = "SINGLE_POINT_BIT_LEVEL"
    /\ \E c \in DOMAIN ga.p1.genes :
          LET cut == gb.d.genes[c]
              k == (cut \div ga.m_config.integer_bits) + 1
          IN  /\ cut % ga.m_config.integer_bits # 0
              /\ gb.child1.genes[c][k] \notin
                     {ga.p1.genes[c][k], ga.p2.genes[c][k]}

\* C22: uniform crossover decides every bit of every gene by its own draw:
\* below integer_bits either child1 has parent1's bit and child2 parent2's,
\* or the two are swapped; with uniform_crossover_probability = 1 the
\* children's genes are their parents'.
C22_UniformDecidesEveryBit ==
    (gb # NoEngine /\ ga.m_config.crossover_method = "UNIFORM_BIT_LEVEL")
        => /\ \A c \in DOMAIN ga.p1.genes :
                 DecidedPerBit(ga.m_config, ga.p1.genes[c], ga.p2.genes[c],
                               gb.child1.genes[c], gb.child2.genes[c],
                               gb.d.genes[c])
           /\ ga.m_config.enable_auto_adaptation
                 => DecidedPerBit(ga.m_config, ga.p1.probas, ga.p2.probas,
                                  gb.child1.probas, gb.child2.probas,
                                  gb.d.probas)
           /\ ga.m_config.uniform_crossover_probability = "one"
                 => /\ gb.child1.genes = ga.p1.genes
                    /\ gb.child2.genes = ga.p2.genes

\* C22 witness: within one gene whose two bits differ between the parents,
\* one bit went straight and the other was swapped.
C22_OneBitStraightOneSwapped ==
    /\ gb # NoEngine
    /\ ga.m_config.crossover_method = "UNIFORM_BIT_LEVEL"
    /\ ga.m_config.integer_bits = 2
    /\ \E c \in DOMAIN ga.p1.genes : \E i \in DOMAIN ga.p1.genes[c] :
          /\ gb.d.genes[c][i] \in {1, 2}
          /\ BitXor(ga.p1.genes[c][i], ga.p2.genes[c][i]) = 3
          /\ gb.child1.genes[c][i] \notin
                 {ga.p1.genes[c][i], ga.p2.genes[c][i]}

\* C23: both children of crossover() have their cached fitness invalidated,
\* under both methods and also when a child's genetic material is that of
\* an evaluated parent.
C23_ChildrenAreUnevaluated ==
    gb # NoEngine => ~gb.child1.evaluated /\ ~gb.child2.evaluated

\* C23 witness: a child has the genes and probability genes of its evaluated
\* parent and is unevaluated.
C23_UnchangedChildOfEvaluatedParent ==
    /\ gb # NoEngine
    /\ ga.p1.evaluated
    /\ gb.child1.genes = ga.p1.genes
    /\ gb.child1.probas = ga.p1.probas
    /\ ~gb.child1.evaluated

\* C29 as stated: with auto-adaptation the children's mutation-probability
\* genes are the parents' spliced at a cut point of
\* [0, (number_of_vectors + 1) * integer_bits); without it each child has
\* its own parent's.
C29_ProbasSplicedAtACut ==
    gb # NoEngine
        => IF ga.m_config.enable_auto_adaptation
           THEN \E cut \in 0 .. ((ga.m_config.number_of_vectors + 1)
                                     * ga.m_config.integer_bits - 1) :
                    SplicedAt(ga.m_config, ga.p1.probas, ga.p2.probas,
                              gb.child1.probas, gb.child2.probas, cut)
           ELSE /\ gb.child1.probas = ga.p1.probas
                /\ gb.child2.probas = ga.p2.probas

\* C29 amended: without auto-adaptation each child has its own parent's
\* mutation-probability genes and nothing is drawn for them; with it they
\* are recombined by the Config's crossover method: under the single-point
\* method at a cut point drawn separately over
\* [0, (number_of_vectors + 1) * integer_bits), under the uniform method
\* bit by bit as the genes are.
C29_ProbasFollowTheMethod ==
    gb # NoEngine
        => IF ~ga.m_config.enable_auto_adaptation
           THEN /\ gb.child1.probas = ga.p1.probas
                /\ gb.child2.probas = ga.p2.probas
                /\ gb.d.probas = 0
           ELSE IF ga.m_config.crossover_method = "SINGLE_POINT_BIT_LEVEL"
           THEN /\ gb.d.probas \in
                       0 .. ((ga.m_config.number_of_vectors + 1)
                               * ga.m_config.integer_bits - 1)
                /\ SplicedAt(ga.m_config, ga.p1.probas, ga.p2.probas,
                             gb.child1.probas, gb.child2.probas, gb.d.probas)
           ELSE DecidedPerBit(ga.m_config, ga.p1.probas, ga.p2.probas,
                              gb.child1.probas, gb.child2.probas, gb.d.probas)

\* C29 witness: auto-adaptation is off, the parents' mutation-probability
\* genes differ, the genes were recombined and each child has its own
\* parent's probability genes.
C29_ProbasKeptWithoutAdaptation ==
    /\ gb # NoEngine
    /\ ~ga.m_config.enable_auto_adaptation
    /\ ga.p1.probas # ga.p2.probas
    /\ gb.child1.genes # ga.p1.genes
    /\ gb.child1.probas = ga.p1.probas
    /\ gb.child2.probas = ga.p2.probas

\* C30: crossover preserves the gene range: the parents' genes and
\* mutation-probability genes lie in [0, 2^integer_bits - 1], and so do the
\* children's, under both methods, also when integer_bits is below the
\* width of integer_type.
C30_ChildrenGenesInRange ==
    gb # NoEngine
        => \A child \in {gb.child1, gb.child2} :
              /\ \A c \in DOMAIN child.genes : \A i \in DOMAIN child.genes[c] :
                    child.genes[c][i] \in GeneValues(ga.m_config)
              /\ \A i \in DOMAIN child.probas :
                    child.probas[i] \in GeneValues(ga.m_config)

\* C30 witness: integer_bits is below the width of integer_type and
\* crossover produced a child whose genes are neither parent's.
C30_NarrowGenesRecombined ==
    /\ gb # NoEngine
    /\ ga.m_config.integer_bits < IntegerWidth
    /\ gb.child1.genes \notin {ga.p1.genes, ga.p2.genes}

-----------------------------------------------------------------------------
\* Properties of two engines (SpecTwin)

\* C9: two engines with the same Config, fitness function and non-zero
\* seed that have done the same operations hold the same best fitness, the
\* same population and have handed their callbacks the same values.
C9_SameSeedSameEvolution ==
    (ga.seed # 0 /\ gb.seed = ga.seed /\ tape = <<>>)
        => /\ gb.m_best_fitness = ga.m_best_fitness
           /\ gb.m_population = ga.m_population
           /\ gb.log = ga.log

====
